---- MODULE Spec2Model ----
(***************************************************************************)
(* Model of the close-approach enrichment pipeline (src/2nd_file.py, the   *)
(* v3 revision): the String Normalizer, the MOID Extractor, the Orbital    *)
(* Lookup Client and main().                                               *)
(*                                                                         *)
(* Representation.  A Python string is a sequence of one-character         *)
(* strings; "NL" stands for the newline character.  A float is an integer  *)
(* count of 1/Unit; an optional float is <<v>> or NaN == <<>>, which also  *)
(* stands for Python's None in a numeric column.                           *)
(***************************************************************************)
EXTENDS Integers, Sequences, FiniteSets, TLC

VARIABLES
    pc,          \* position of main(): start, lookups, save_full, save_watch, done, raised
    rows,        \* the "data" rows of the primary response, as fetched
    df,          \* the data frame: one record per row
    unique_ids,  \* sorted unique non-missing designations
    moids,       \* designation -> optional float, built by the lookup loop
    out,         \* the projected, sorted output table
    interesting, \* the watch-list subset of out
    files,       \* file name -> its rows, for the files written so far
    log,         \* the externally visible events of the run, in order
    orbit,       \* the orbit record handed to _extract_moid_from_orbit
    xres,        \* what _extract_moid_from_orbit did with it: <<>> before the call
    cs,          \* the string handed to _clean_sstr
    cs_hist      \* the results of successive applications of _clean_sstr

vars == <<pc, rows, df, unique_ids, moids, out, interesting, files, log,
          orbit, xres, cs, cs_hist>>

pipeVars == <<pc, rows, df, unique_ids, moids, out, interesting, files, log>>
extractVars == <<orbit, xres>>
cleanVars == <<cs, cs_hist>>

----------------------------------------------------------------------------
(* Bounds of the model. *)

MaxRows == 3        \* rows in the primary response
MaxStrLen == 4      \* length of a MOID string handed to the float parser
MaxCleanLen == 5    \* length of a string handed to the normalizer
MaxItems == 2       \* entries of a list-style "elements"

----------------------------------------------------------------------------
(* Strings. *)

StringsUpTo(alphabet, n) == UNION {[1..k -> alphabet] : k \in 0..n}

NaN == <<>>
Some(v) == <<v>>

Whitespace == {" ", "NL"}
DigitChars == {"0", "5"}

\* Characters in code-point order, as Python's sorted() compares strings.
CharOrder == <<"NL", " ", "(", ")", "-", ".", "0", "5", "A", "D", "E", "H", "I", "M",
               "O", "R", "T", "a", "b", "d", "e", "h", "i", "m", "o", "r", "t">>

CharRank(c) == CHOOSE k \in 1..Len(CharOrder) : CharOrder[k] = c

RECURSIVE StrLess(_, _)
StrLess(a, b) ==
    IF a = <<>> THEN b # <<>>
    ELSE IF b = <<>> THEN FALSE
    ELSE IF Head(a) = Head(b) THEN StrLess(Tail(a), Tail(b))
    ELSE CharRank(Head(a)) < CharRank(Head(b))

RECURSIVE LStrip(_)
LStrip(s) == IF s # <<>> /\ Head(s) \in Whitespace THEN LStrip(Tail(s)) ELSE s

RECURSIVE RStrip(_)
RStrip(s) ==
    IF s # <<>> /\ s[Len(s)] \in Whitespace THEN RStrip(SubSeq(s, 1, Len(s) - 1)) ELSE s

\* str.strip(), and re.sub(r'^\s+|\s+$', '', s)
Strip(s) == RStrip(LStrip(s))

\* re.sub(r'^\((.*)\)$', r'\1', s): '.' does not match a newline
DropOuterParens(s) ==
    IF /\ Len(s) >= 2
       /\ s[1] = "("
       /\ s[Len(s)] = ")"
       /\ \A k \in 2..(Len(s) - 1) : s[k] # "NL"
    THEN SubSeq(s, 2, Len(s) - 1)
    ELSE s

\* re.sub(r'\s+', ' ', s)
RECURSIVE CollapseSpaces(_)
CollapseSpaces(s) ==
    IF s = <<>> THEN <<>>
    ELSE IF Head(s) \in Whitespace
         THEN <<" ">> \o CollapseSpaces(LStrip(s))
         ELSE <<Head(s)>> \o CollapseSpaces(Tail(s))

\* a variant that strips a leading "(" and a trailing ")" each on its own: r'^\(|\)$'
DropEdgeParens(s) ==
    LET a == IF s # <<>> /\ Head(s) = "(" THEN Tail(s) ELSE s
    IN  IF a # <<>> /\ a[Len(a)] = ")" THEN SubSeq(a, 1, Len(a) - 1) ELSE a

clean_sstr_edge_parens(s) == CollapseSpaces(DropEdgeParens(Strip(s)))

clean_sstr(s) == CollapseSpaces(DropOuterParens(Strip(s)))

----------------------------------------------------------------------------
(* Floats: float(str), and the regular expression of the fallback. *)

\* A float is counted in units of 10^-FracDigits: every decimal of at most MaxStrLen
\* characters is exact.
FracDigits == MaxStrLen - 1

Unit == 10 ^ FracDigits

DigitVal(c) == IF c = "5" THEN 5 ELSE 0

\* index just past the run of digits that starts at p
RECURSIVE DigitRunEnd(_, _)
DigitRunEnd(s, p) ==
    IF p <= Len(s) /\ s[p] \in DigitChars THEN DigitRunEnd(s, p + 1) ELSE p

RECURSIVE DigitsVal(_)
DigitsVal(s) ==
    IF s = <<>> THEN 0 ELSE DigitsVal(SubSeq(s, 1, Len(s) - 1)) * 10 + DigitVal(s[Len(s)])

\* the digits after the decimal point, in units of 1/Unit
FracVal(s) ==
    LET d == SubSeq(s, 1, IF Len(s) < FracDigits THEN Len(s) ELSE FracDigits)
    IN  DigitsVal(d) * (10 ^ (FracDigits - Len(d)))

\* float(s) of a Python string: [ok |-> FALSE] stands for ValueError
ParseFloat(s) ==
    LET t    == Strip(s)
        neg  == t # <<>> /\ Head(t) = "-"
        body == IF neg THEN Tail(t) ELSE t
        n    == Len(body)
        d1   == DigitRunEnd(body, 1)
        dot  == d1 <= n /\ body[d1] = "."
        d2   == IF dot THEN DigitRunEnd(body, d1 + 1) ELSE d1
        well == /\ d2 = n + 1
                /\ (d1 > 1 \/ (dot /\ d2 > d1 + 1))
        mag  == DigitsVal(SubSeq(body, 1, d1 - 1)) * Unit
                + (IF dot THEN FracVal(SubSeq(body, d1 + 1, d2 - 1)) ELSE 0)
    IN  IF well THEN [ok |-> TRUE, v |-> IF neg THEN 0 - mag ELSE mag]
        ELSE [ok |-> FALSE, v |-> 0]

\* end (exclusive) of the match of \d*\.?\d+ at p, or 0 when there is none
NumEndAt(s, p) ==
    LET d1 == DigitRunEnd(s, p)
        d2 == IF d1 <= Len(s) /\ s[d1] = "." THEN DigitRunEnd(s, d1 + 1) ELSE 0
    IN  IF d2 > d1 + 1 THEN d2
        ELSE IF d1 > p THEN d1
        ELSE 0

\* end (exclusive) of the match of [-+]?\d*\.?\d+ at i, or 0
MatchEndAt(s, i) == IF s[i] = "-" THEN NumEndAt(s, i + 1) ELSE NumEndAt(s, i)

\* re.search(r"[-+]?\d*\.?\d+(?:[eE][-+]?\d+)?", s): the leftmost match, or <<>>
SearchNumber(s) ==
    LET starts == {i \in 1..Len(s) : MatchEndAt(s, i) # 0}
    IN  IF starts = {} THEN <<>>
        ELSE LET i == CHOOSE a \in starts : \A b \in starts : a <= b
             IN  <<SubSeq(s, i, MatchEndAt(s, i) - 1)>>

----------------------------------------------------------------------------
(* JSON values found in an orbit record. *)

JNull == [k |-> "null", v |-> 0, s |-> <<>>]        \* null, or the key is absent
JNum(x) == [k |-> "num", v |-> x, s |-> <<>>]       \* a number a float holds
JBig == [k |-> "bigint", v |-> 0, s |-> <<>>]       \* an integer beyond the float range
JStr(t) == [k |-> "str", v |-> 0, s |-> t]
JObj == [k |-> "object", v |-> 0, s |-> <<>>]       \* a non-empty list or mapping

\* Python truthiness, as "x or y" tests it
Truthy(x) ==
    CASE x.k = "null" -> FALSE
      [] x.k = "num" -> x.v # 0
      [] x.k = "str" -> x.s # <<>>
      [] OTHER -> TRUE

PyOr(a, b) == IF Truthy(a) THEN a ELSE b

LowerChar(c) ==
    CASE c = "A" -> "a" [] c = "D" -> "d" [] c = "E" -> "e" [] c = "H" -> "h"
      [] c = "I" -> "i" [] c = "M" -> "m" [] c = "O" -> "o" [] c = "R" -> "r"
      [] c = "T" -> "t" [] OTHER -> c

Lower(s) == [k \in 1..Len(s) |-> LowerChar(s[k])]

MoidNames == {<<"m", "o", "i", "d">>, <<"e", "a", "r", "t", "h", " ", "m", "o", "i", "d">>}

ElemsNone == [t |-> "none", moid |-> JNull, earth |-> JNull, moid_au |-> JNull, items |-> <<>>]
ElemsDict(m, e, a) == [t |-> "dict", moid |-> m, earth |-> e, moid_au |-> a, items |-> <<>>]
ElemsList(its) == [t |-> "list", moid |-> JNull, earth |-> JNull, moid_au |-> JNull, items |-> its]

NonDictItem == [t |-> "nondict", name |-> <<>>, value |-> JNull, val |-> JNull]
Item(n, a, b) == [t |-> "dict", name |-> n, value |-> a, val |-> b]

NotMapping == [t |-> "nonmap", elements |-> ElemsNone, moid |-> JNull]
Orbit(e, m) == [t |-> "dict", elements |-> e, moid |-> m]

\* the result of a call: a returned optional float, or an exception
Ret(x) == [raise |-> FALSE, v |-> x]
Raise == [raise |-> TRUE, v |-> NaN]

----------------------------------------------------------------------------
(* _extract_moid_from_orbit *)

\* Case A: dict-style elements
DictCandidate(elems) ==
    IF elems.moid # JNull THEN elems.moid ELSE PyOr(elems.earth, elems.moid_au)

\* Case B: list-style elements; the first entry whose name matches ends the scan
RECURSIVE ListCandidate(_)
ListCandidate(its) ==
    IF its = <<>> THEN JNull
    ELSE IF Head(its).t = "dict" /\ Lower(Strip(Head(its).name)) \in MoidNames
         THEN PyOr(Head(its).value, Head(its).val)
         ELSE ListCandidate(Tail(its))

Candidate(o) ==
    LET elems == o.elements
        moid  == IF elems.t = "dict" THEN DictCandidate(elems)
                 ELSE IF elems.t = "list" THEN ListCandidate(elems.items)
                 ELSE JNull
    IN  IF moid = JNull THEN o.moid ELSE moid

\* Normalize to float
NormalizeMoid(moid) ==
    CASE moid.k = "num" -> Ret(Some(moid.v))
      [] moid.k = "bigint" -> Raise                  \* float(moid): OverflowError
      [] moid.k = "str" ->
            IF ParseFloat(moid.s).ok THEN Ret(Some(ParseFloat(moid.s).v))
            ELSE LET m == SearchNumber(moid.s)
                 IN  IF m = <<>> THEN Ret(NaN) ELSE Ret(Some(ParseFloat(m[1]).v))
      [] OTHER -> Ret(NaN)

extract_moid_from_orbit(o) ==
    IF o.t # "dict" THEN Ret(NaN) ELSE NormalizeMoid(Candidate(o))

----------------------------------------------------------------------------
(* The extractor applied to one orbit record. *)

NumAlphabet == {"0", "5", ".", "-", "a", " "}

S_05au == <<".", "0", "5", " ", "a">>      \* ".05 a": a value with a unit
S_5 == <<".", "5">>
S_na == <<"a">>                            \* no number in it

Vals == {JNull, JNum(0), JNum(Unit \div 50), JBig, JStr(S_05au), JStr(S_na), JStr(<<>>), JObj}
ItemValues == {JNull, JNum(0), JStr(S_05au)}     \* an entry's "value"
ItemVals == {JNull, JNum(Unit \div 50)}           \* an entry's "val"
TopVals == {JNull, JStr(S_5)}
ItemNames == {<<"M", "O", "I", "D">>, <<" ", "E", "a", "r", "t", "h", " ", "M", "O", "I", "D">>, <<"e">>}
ItemPool == {NonDictItem} \cup {Item(n, a, b) : n \in ItemNames, a \in ItemValues, b \in ItemVals}

OrbitUniverse ==
    {NotMapping}
    \cup {Orbit(ElemsDict(m, e, a), t) : m \in Vals, e \in Vals, a \in Vals, t \in TopVals}
    \cup {Orbit(ElemsList(its), t) :
            its \in UNION {[1..k -> ItemPool] : k \in 0..MaxItems}, t \in TopVals}
    \cup {Orbit(ElemsNone, JStr(s)) : s \in StringsUpTo(NumAlphabet, MaxStrLen)}

ExtractInit ==
    /\ orbit \in OrbitUniverse
    /\ xres = <<>>

ExtractApply ==
    /\ xres = <<>>
    /\ xres' = <<extract_moid_from_orbit(orbit)>>
    /\ UNCHANGED orbit

----------------------------------------------------------------------------
(* The normalizer applied repeatedly to one string. *)

CleanAlphabet == {" ", "NL", "(", ")", "a"}

CleanInit ==
    /\ cs \in StringsUpTo(CleanAlphabet, MaxCleanLen)
    /\ cs_hist = <<>>

CleanApply ==
    /\ Len(cs_hist) < 2
    /\ cs_hist' = Append(cs_hist, clean_sstr(IF cs_hist = <<>> THEN cs ELSE cs_hist[Len(cs_hist)]))
    /\ UNCHANGED cs

----------------------------------------------------------------------------
(* The data frame of main(). *)

NullCell == [null |-> TRUE, s |-> <<>>]      \* JSON null in a row
Cell(t) == [null |-> FALSE, s |-> t]         \* a string, as the service sends every value

PHA_MOID_MAX == (5 * Unit) \div 100          \* 0.05 AU
PHA_H_MAX == 22 * Unit                       \* 22.0
CLOSE_FLAG_MAX == (5 * Unit) \div 100        \* 0.05 AU
VERY_CLOSE_MAX == Unit \div 100              \* 0.01 AU

\* pd.to_numeric(col, errors="coerce") on one cell
to_numeric(cell) ==
    IF cell.null \/ ~ParseFloat(cell.s).ok THEN NaN ELSE Some(ParseFloat(cell.s).v)

\* x <= c on a float column: a comparison with NaN is False
Le(x, c) == x # NaN /\ x[1] <= c

\* pd.DataFrame(rows), the numeric coercion and the two simple flags
MakeFrame(rs) ==
    [k \in 1..Len(rs) |->
        LET dist == to_numeric(rs[k].dist)
            h    == to_numeric(rs[k].h)
        IN  [idx |-> k, des |-> rs[k].des, dist |-> dist, h |-> h,
             v_rel |-> to_numeric(rs[k].v_rel),
             close |-> Le(dist, CLOSE_FLAG_MAX), big |-> Le(h, PHA_H_MAX)]]

\* sorted(S) of a set of strings
RECURSIVE SortedStrings(_)
SortedStrings(S) ==
    IF S = {} THEN <<>>
    ELSE LET m == CHOOSE a \in S : \A b \in S \ {a} : StrLess(a, b)
         IN  <<m>> \o SortedStrings(S \ {m})

\* sorted(df["des"].dropna().unique().tolist())
UniqueIds(frame) ==
    SortedStrings({frame[k].des.s : k \in {j \in DOMAIN frame : ~frame[j].des.null}})

\* a variant that joins on the normalized designation
MapMoid_cleaned(des, m) ==
    IF des.null \/ clean_sstr(des.s) \notin DOMAIN m THEN NaN ELSE m[clean_sstr(des.s)]

\* df["des"].map(moids): a key the mapping lacks, or a missing key, gives NaN
MapMoid(des, m) == IF des.null \/ des.s \notin DOMAIN m THEN NaN ELSE m[des.s]

\* a variant that fills a missing MOID with 0 before comparing
PHA_missing_as_zero(moid, h) == (moid = NaN \/ Le(moid, PHA_MOID_MAX)) /\ Le(h, PHA_H_MAX)

\* df["PHA_by_def"] = (df["moid_au"] <= 0.05) & (df["h"] <= 22.0)
PHA(moid, h) == Le(moid, PHA_MOID_MAX) /\ Le(h, PHA_H_MAX)

\* a variant that joins as an inner merge: a row without a designation is lost
WithMoid_inner(frame, m) ==
    LET kept == SelectSeq(frame, LAMBDA r : ~r.des.null)
    IN  [k \in DOMAIN kept |->
            [idx |-> kept[k].idx, des |-> kept[k].des, dist |-> kept[k].dist, h |-> kept[k].h,
             v_rel |-> kept[k].v_rel, close |-> kept[k].close, big |-> kept[k].big,
             moid_au |-> MapMoid(kept[k].des, m),
             PHA_by_def |-> PHA(MapMoid(kept[k].des, m), kept[k].h)]]

WithMoid(frame, m) ==
    [k \in DOMAIN frame |->
        LET r    == frame[k]
            moid == MapMoid(r.des, m)
        IN  [idx |-> r.idx, des |-> r.des, dist |-> r.dist, h |-> r.h, v_rel |-> r.v_rel,
             close |-> r.close, big |-> r.big, moid_au |-> moid,
             PHA_by_def |-> PHA(moid, r.h)]]

\* One sort key: NaN goes last whatever the direction (na_position="last")
AscLess(a, b) == a # NaN /\ (b = NaN \/ a[1] < b[1])
DescLess(a, b) == a # NaN /\ (b = NaN \/ a[1] > b[1])

\* a variant with ascending=True for every key
KeyLess_all_ascending(x, y) ==
    \/ AscLess(x.dist, y.dist)
    \/ /\ x.dist = y.dist
       /\ \/ AscLess(x.h, y.h)
          \/ x.h = y.h /\ AscLess(x.v_rel, y.v_rel)

\* by=["dist", "h", "v_rel"], ascending=[True, True, False]
KeyLess(x, y) ==
    \/ AscLess(x.dist, y.dist)
    \/ /\ x.dist = y.dist
       /\ \/ AscLess(x.h, y.h)
          \/ x.h = y.h /\ DescLess(x.v_rel, y.v_rel)

\* x goes before the first row that sorts strictly after it: equal keys keep their order
RECURSIVE InsertSorted(_, _)
InsertSorted(sorted, x) ==
    IF sorted = <<>> THEN <<x>>
    ELSE IF KeyLess(x, Head(sorted)) THEN <<x>> \o sorted
    ELSE <<Head(sorted)>> \o InsertSorted(Tail(sorted), x)

\* df.sort_values(by=..., ascending=...).reset_index(drop=True)
RECURSIVE sort_values(_)
sort_values(frame) ==
    IF frame = <<>> THEN <<>>
    ELSE InsertSorted(sort_values(SubSeq(frame, 1, Len(frame) - 1)), frame[Len(frame)])

\* out = df[cols].rename(columns=...); idx records the fetched row a record came from
Project(frame) ==
    [k \in DOMAIN frame |->
        LET r == frame[k]
        IN  [idx |-> r.idx, designation |-> r.des, dist_au |-> r.dist,
             v_rel_km_s |-> r.v_rel, H_abs_mag |-> r.h, moid_au |-> r.moid_au,
             close |-> r.close, big |-> r.big, PHA_by_def |-> r.PHA_by_def]]

\* a variant with & for |
IsInteresting_and(r) == r.PHA_by_def /\ Le(r.dist_au, VERY_CLOSE_MAX)

\* is_pha | is_close
IsInteresting(r) == r.PHA_by_def \/ Le(r.dist_au, VERY_CLOSE_MAX)

Interesting(o) == SelectSeq(o, IsInteresting)

----------------------------------------------------------------------------
(* The two services. *)

\* what requests.get / raise_for_status / r.json() raise: all are RequestException
RequestExceptions == {"timeout", "connection", "http", "badjson"}

Failure(kind) == [kind |-> kind, isdict |-> FALSE, orbit |-> NotMapping]
Body(isdict, o) == [kind |-> "ok", isdict |-> isdict, orbit |-> o]

D_b == <<"b">>
D_pa == <<"(", "a", ")">>

S_005 == <<".", "0", "0", "5">>
S_50 == <<"5", "0">>
S_one5 == <<"5">>

RowOf(des, dist, h, v) == [des |-> des, dist |-> dist, h |-> h, v_rel |-> v]

RowPool ==
    { RowOf(Cell(D_pa), Cell(S_005), Cell(S_one5), Cell(S_one5)),
      RowOf(Cell(D_pa), Cell(S_5),   Cell(S_one5), Cell(S_50)),
      RowOf(Cell(D_b),  Cell(S_5),   Cell(S_50),   Cell(S_one5)),
      RowOf(Cell(D_b),  Cell(S_5),   Cell(S_one5), Cell(S_one5)),
      RowOf(Cell(D_b),  Cell(S_5),   Cell(S_one5), Cell(S_50)),
      RowOf(Cell(D_b),  Cell(S_005), NullCell,     Cell(S_50)),
      RowOf(NullCell,   Cell(S_na),  NullCell,     Cell(S_one5)) }

RowSeqs == UNION {[1..k -> RowPool] : k \in 0..MaxRows}

LookupResponses ==
    {Failure(k) : k \in RequestExceptions}
    \cup { Body(FALSE, NotMapping),                                   \* the body is a list
           Body(TRUE, NotMapping),                                    \* "orbit": null
           Body(TRUE, Orbit(ElemsNone, JNull)),                       \* no "orbit" key
           Body(TRUE, Orbit(ElemsDict(JStr(S_05au), JNull, JNull), JNull)),
           Body(TRUE, Orbit(ElemsList(<<Item(<<"M", "O", "I", "D">>, JStr(S_5), JNull)>>), JNull)),
           Body(TRUE, Orbit(ElemsNone, JBig)) }

\* sbdb_lookup_moid, given what the service answers
sbdb_lookup_moid(resp) ==
    IF resp.kind \in RequestExceptions THEN Ret(NaN)      \* except requests.RequestException
    ELSE IF ~resp.isdict THEN Ret(NaN)
    ELSE extract_moid_from_orbit(resp.orbit)

Put(m, key, val) == [d \in DOMAIN m \cup {key} |-> IF d = key THEN val ELSE m[d]]

\* an event of the run; a request to the lookup service records the designation it is for
Event(e, a) == [e |-> e, a |-> a, d |-> <<>>]
GetSbdb(des) == [e |-> "GET sbdb", a |-> clean_sstr(des), d |-> des]

F_FULL == <<"close_approaches.csv">>
F_WATCH == <<"watchlist.csv">>

----------------------------------------------------------------------------
(* main() *)

ExtractIdle == orbit = NotMapping /\ xres = <<>>
CleanIdle == cs = <<>> /\ cs_hist = <<>>

PipeStart ==
    /\ pc = "start"
    /\ rows = <<>>
    /\ df = <<>>
    /\ unique_ids = <<>>
    /\ moids = <<>>
    /\ out = <<>>
    /\ interesting = <<>>
    /\ files = <<>>
    /\ log = <<>>

Init == PipeStart /\ ExtractIdle /\ CleanIdle

\* requests.get(CAD_URL) or raise_for_status() or r.json() raises: main() does not catch it
FetchFails ==
    /\ pc = "start"
    /\ \E kind \in RequestExceptions : log' = Append(log, Event("GET cad", <<kind>>))
    /\ pc' = "raised"
    /\ UNCHANGED <<rows, df, unique_ids, moids, out, interesting, files>>
    /\ UNCHANGED <<extractVars, cleanVars>>

\* a variant without the early return: both files are written, empty
FetchEmpty_no_return ==
    /\ pc = "start"
    /\ log' = log \o <<Event("GET cad", <<"ok">>), Event("write", F_FULL), Event("write", F_WATCH)>>
    /\ files' = Put(Put(files, F_FULL, <<>>), F_WATCH, <<>>)
    /\ pc' = "done"
    /\ UNCHANGED <<rows, df, unique_ids, moids, out, interesting>>
    /\ UNCHANGED <<extractVars, cleanVars>>

\* "data" is empty or absent: print and return
FetchEmpty ==
    /\ pc = "start"
    /\ log' = log \o <<Event("GET cad", <<"ok">>), Event("print", <<"No upcoming close approaches">>)>>
    /\ pc' = "done"
    /\ UNCHANGED <<rows, df, unique_ids, moids, out, interesting, files>>
    /\ UNCHANGED <<extractVars, cleanVars>>

\* rows came back: build the frame, coerce, derive, collect the designations
FetchRows ==
    /\ pc = "start"
    /\ \E rs \in RowSeqs :
          /\ rs # <<>>
          /\ rows' = rs
          /\ df' = MakeFrame(rs)
          /\ unique_ids' = UniqueIds(MakeFrame(rs))
    /\ moids' = <<>>
    /\ log' = Append(log, Event("GET cad", <<"ok">>))
    /\ pc' = "lookups"
    /\ UNCHANGED <<out, interesting, files>>
    /\ UNCHANGED <<extractVars, cleanVars>>

\* one turn of the loop: moids[des] = sbdb_lookup_moid(des); time.sleep(REQUEST_SLEEP)
Lookup ==
    /\ pc = "lookups"
    /\ Cardinality(DOMAIN moids) < Len(unique_ids)
    /\ LET des == unique_ids[Cardinality(DOMAIN moids) + 1]
           get == GetSbdb(des)
       IN  \E resp \in LookupResponses :
              IF sbdb_lookup_moid(resp).raise
              THEN /\ pc' = "raised"
                   /\ log' = Append(log, get)
                   /\ UNCHANGED moids
              ELSE /\ pc' = pc
                   /\ log' = log \o <<get, Event("sleep", des)>>
                   /\ moids' = Put(moids, des, sbdb_lookup_moid(resp).v)
    /\ UNCHANGED <<rows, df, unique_ids, out, interesting, files>>
    /\ UNCHANGED <<extractVars, cleanVars>>

\* after the loop: join, classify, sort, project, partition, print the previews
Enrich ==
    /\ pc = "lookups"
    /\ Cardinality(DOMAIN moids) = Len(unique_ids)
    /\ df' = sort_values(WithMoid(df, moids))
    /\ out' = Project(df')
    /\ interesting' = Interesting(out')
    /\ log' = log \o <<Event("print", <<"Interesting">>), Event("print", <<"Preview">>)>>
    /\ pc' = "save_full"
    /\ UNCHANGED <<rows, unique_ids, moids, files>>
    /\ UNCHANGED <<extractVars, cleanVars>>

\* out.to_csv("close_approaches.csv")
SaveFull ==
    /\ pc = "save_full"
    /\ files' = Put(files, F_FULL, out)
    /\ log' = Append(log, Event("write", F_FULL))
    /\ pc' = "save_watch"
    /\ UNCHANGED <<rows, df, unique_ids, moids, out, interesting>>
    /\ UNCHANGED <<extractVars, cleanVars>>

\* interesting.to_csv("watchlist.csv"), the last print, return
SaveWatch ==
    /\ pc = "save_watch"
    /\ files' = Put(files, F_WATCH, interesting)
    /\ log' = log \o <<Event("write", F_WATCH), Event("print", <<"Saved">>)>>
    /\ pc' = "done"
    /\ UNCHANGED <<rows, df, unique_ids, moids, out, interesting>>
    /\ UNCHANGED <<extractVars, cleanVars>>

Next == FetchFails \/ FetchEmpty \/ FetchRows \/ Lookup \/ Enrich \/ SaveFull \/ SaveWatch

Spec == Init /\ [][Next]_vars

\* the extractor alone, on every orbit record of the universe
InitExtract == PipeStart /\ ExtractInit /\ CleanIdle

NextExtract == ExtractApply /\ UNCHANGED <<pipeVars, cleanVars>>

SpecExtract == InitExtract /\ [][NextExtract]_vars

\* the normalizer alone, applied twice to every string of the universe
InitClean == PipeStart /\ ExtractIdle /\ CleanInit

NextClean == CleanApply /\ UNCHANGED <<pipeVars, extractVars>>

SpecClean == InitClean /\ [][NextClean]_vars

----------------------------------------------------------------------------
(* Claims about main() (under Spec). *)

HasFull == F_FULL \in DOMAIN files
HasWatch == F_WATCH \in DOMAIN files
Enriched == pc \in {"save_full", "save_watch", "done"} /\ rows # <<>>

\* the designations of the fetched rows
FetchedIds == {rows[k].des.s : k \in {j \in DOMAIN rows : ~rows[j].des.null}}

Gets == SelectSeq(log, LAMBDA ev : ev.e = "GET sbdb")
Positions(e) == {p \in DOMAIN log : log[p].e = e}

Within(x, limit) == x # NaN /\ x[1] <= limit

\* C1: once the primary fetch has returned rows, no lookup aborts the run: main() runs
\* to the end, writes both files, and an event's moid_au is missing exactly when the
\* lookup for its designation gave nothing.
C1_LookupNeverAborts ==
    rows # <<>> =>
        /\ pc # "raised"
        /\ pc = "done" =>
              /\ DOMAIN files = {F_FULL, F_WATCH}
              /\ \A k \in DOMAIN files[F_FULL] :
                    LET r == files[F_FULL][k]
                    IN  ~r.designation.null =>
                            (r.moid_au = NaN <=> moids[r.designation.s] = NaN)

\* C2: in every file written, PHA_by_def is true exactly for the records whose MOID is
\* present and at most 0.05 AU and whose H is present and at most 22.0.
C2_PHAIffMoidAndHWithinLimits ==
    \A f \in DOMAIN files : \A k \in DOMAIN files[f] :
        LET r == files[f][k]
        IN  r.PHA_by_def <=> (/\ Within(r.moid_au, (5 * Unit) \div 100)
                              /\ Within(r.H_abs_mag, 22 * Unit))

\* a full table with a hazardous record, a record with a missing MOID and H within
\* the limit, and a record with a MOID within the limit and a missing H
C2_Witness ==
    /\ HasFull
    /\ \E k \in DOMAIN files[F_FULL] : files[F_FULL][k].PHA_by_def
    /\ \E k \in DOMAIN files[F_FULL] :
          files[F_FULL][k].moid_au = NaN /\ Within(files[F_FULL][k].H_abs_mag, 22 * Unit)
    /\ \E k \in DOMAIN files[F_FULL] :
          files[F_FULL][k].H_abs_mag = NaN /\ Within(files[F_FULL][k].moid_au, (5 * Unit) \div 100)

\* C3: close_approaches.csv holds exactly one record for each fetched row, and the
\* record of a row carries that row's designation.
C3_OneRecordPerRow ==
    HasFull =>
        /\ Len(files[F_FULL]) = Len(rows)
        /\ \A k \in DOMAIN rows :
              /\ Cardinality({j \in DOMAIN files[F_FULL] : files[F_FULL][j].idx = k}) = 1
              /\ \A j \in DOMAIN files[F_FULL] :
                    files[F_FULL][j].idx = k => files[F_FULL][j].designation = rows[k].des

\* a full table, reordered by the sort, from rows of which one has no designation and
\* an unparseable distance, and one has a designation whose lookup gave nothing
C3_Witness ==
    /\ HasFull
    /\ Len(rows) >= 3
    /\ \E k \in DOMAIN rows : rows[k].des.null /\ to_numeric(rows[k].dist) = NaN
    /\ \E k \in DOMAIN files[F_FULL] :
          ~files[F_FULL][k].designation.null /\ files[F_FULL][k].moid_au = NaN
    /\ \E k \in DOMAIN files[F_FULL] : files[F_FULL][k].idx # k

\* C4: after enrichment every event with a designation carries the result of the one
\* lookup made for that designation, and two events with the same designation carry
\* the same MOID.
C4_MoidIsTheLookupResult ==
    Enriched =>
        /\ \A k \in DOMAIN out :
              ~out[k].designation.null =>
                  /\ out[k].designation.s \in DOMAIN moids
                  /\ out[k].moid_au = moids[out[k].designation.s]
                  /\ Cardinality({p \in DOMAIN log :
                        log[p].e = "GET sbdb" /\ log[p].d = out[k].designation.s}) = 1
        /\ \A j, k \in DOMAIN out :
              out[j].designation = out[k].designation => out[j].moid_au = out[k].moid_au

\* two events of one designation, apart in the sorted output, both with a MOID, and a
\* designation that the normalizer changes
C4_Witness ==
    /\ Enriched
    /\ \E j, k \in DOMAIN out :
          /\ j + 1 < k
          /\ ~out[j].designation.null
          /\ out[j].designation = out[k].designation
          /\ out[j + 1].designation # out[j].designation
          /\ out[j].moid_au # NaN
          /\ clean_sstr(out[j].designation.s) # out[j].designation.s

\* C5: files are written only after a primary fetch that returned rows; an empty result
\* ends the run with the message, no lookup and no file; a failed fetch ends it with
\* the exception, no lookup and no file.
C5_FilesOnlyAfterRows ==
    /\ files # <<>> => rows # <<>>
    /\ Positions("write") # {} => rows # <<>>
    /\ rows = <<>> => Positions("GET sbdb") = {} /\ Positions("sleep") = {}
    /\ (pc = "done" /\ rows = <<>>) =>
          log = <<Event("GET cad", <<"ok">>), Event("print", <<"No upcoming close approaches">>)>>
    /\ (pc = "raised" /\ rows = <<>>) =>
          Len(log) = 1 /\ log[1].e = "GET cad" /\ log[1].a[1] \in RequestExceptions

\* the run that found nothing, ended
C5_Witness == pc = "done" /\ rows = <<>> /\ Positions("print") # {}

\* NaN sorts last; otherwise a before b in the given direction
OrderedAsc(a, b) == (a = NaN => b = NaN) /\ ((a # NaN /\ b # NaN) => a[1] <= b[1])
OrderedDesc(a, b) == (a = NaN => b = NaN) /\ ((a # NaN /\ b # NaN) => a[1] >= b[1])

\* C7: in close_approaches.csv distance never decreases; among equal distances H never
\* decreases; among equal distance and H the relative velocity never increases; records
\* equal on all three keep their fetched order.  A missing key sorts last.
C7_SortedOutput ==
    HasFull =>
        \A i, j \in DOMAIN files[F_FULL] :
            LET a == files[F_FULL][i]
                b == files[F_FULL][j]
            IN  i < j =>
                  /\ OrderedAsc(a.dist_au, b.dist_au)
                  /\ a.dist_au = b.dist_au => OrderedAsc(a.H_abs_mag, b.H_abs_mag)
                  /\ (a.dist_au = b.dist_au /\ a.H_abs_mag = b.H_abs_mag) =>
                        OrderedDesc(a.v_rel_km_s, b.v_rel_km_s)
                  /\ (/\ a.dist_au = b.dist_au
                      /\ a.H_abs_mag = b.H_abs_mag
                      /\ a.v_rel_km_s = b.v_rel_km_s) => a.idx < b.idx

\* a full table the sort reordered, with two records that differ only in velocity and
\* two records equal on all three keys
C7_Witness ==
    /\ HasFull
    /\ \E k \in DOMAIN files[F_FULL] : files[F_FULL][k].idx # k
    /\ \E i, j \in DOMAIN files[F_FULL] :
          /\ i < j
          /\ files[F_FULL][i].dist_au = files[F_FULL][j].dist_au
          /\ files[F_FULL][i].H_abs_mag = files[F_FULL][j].H_abs_mag
          /\ files[F_FULL][i].v_rel_km_s # files[F_FULL][j].v_rel_km_s
    /\ \E i, j \in DOMAIN files[F_FULL] :
          /\ i < j
          /\ files[F_FULL][i].dist_au = files[F_FULL][j].dist_au
          /\ files[F_FULL][i].H_abs_mag = files[F_FULL][j].H_abs_mag
          /\ files[F_FULL][i].v_rel_km_s = files[F_FULL][j].v_rel_km_s

Qualifies(r) == r.PHA_by_def \/ Within(r.dist_au, Unit \div 100)

PosInFull(x) == CHOOSE j \in DOMAIN files[F_FULL] : files[F_FULL][j].idx = x

\* C8: watchlist.csv holds exactly the records of close_approaches.csv that are
\* hazardous or within 0.01 AU, each once, in the order they have there.
C8_WatchlistIsTheInterestingSubset ==
    (HasFull /\ HasWatch) =>
        LET full  == files[F_FULL]
            watch == files[F_WATCH]
        IN  /\ \A k \in DOMAIN watch :
                  Qualifies(watch[k]) /\ \E j \in DOMAIN full : full[j] = watch[k]
            /\ \A j \in DOMAIN full :
                  Qualifies(full[j]) => \E k \in DOMAIN watch : watch[k] = full[j]
            /\ \A k, l \in DOMAIN watch :
                  k < l => /\ watch[k].idx # watch[l].idx
                           /\ PosInFull(watch[k].idx) < PosInFull(watch[l].idx)

\* a watch list, shorter than the full table, with a hazardous record farther than
\* 0.01 AU and a record within 0.01 AU that is not hazardous
C8_Witness ==
    /\ HasFull /\ HasWatch
    /\ Len(files[F_WATCH]) < Len(files[F_FULL])
    /\ \E k \in DOMAIN files[F_WATCH] :
          files[F_WATCH][k].PHA_by_def /\ ~Within(files[F_WATCH][k].dist_au, Unit \div 100)
    /\ \E k \in DOMAIN files[F_WATCH] :
          ~files[F_WATCH][k].PHA_by_def /\ Within(files[F_WATCH][k].dist_au, Unit \div 100)

\* the requests made so far are for the smallest designations, one each, in ascending
\* order, each normalized, each but possibly the last followed by the delay, all after
\* the primary fetch and before any file is written
RequestsInOrder ==
    /\ \A k \in DOMAIN Gets :
          /\ Gets[k].d \in FetchedIds
          /\ Gets[k].a = clean_sstr(Gets[k].d)
          /\ Cardinality({x \in FetchedIds : StrLess(x, Gets[k].d)}) = k - 1
    /\ \A p \in Positions("GET sbdb") :
          /\ 1 < p /\ log[1].e = "GET cad"
          /\ p < Len(log) => log[p + 1].e = "sleep" /\ log[p + 1].a = log[p].d
          /\ \A w \in Positions("write") : p < w
    /\ \A p \in Positions("sleep") : 1 < p /\ log[p - 1].e = "GET sbdb"

\* C10: in every run that reaches enrichment the lookup service gets exactly one
\* request per unique designation of the fetched events, in ascending order, one after
\* another with the delay after each, after the primary fetch and before any file.
C10_OneRequestPerDesignation ==
    (rows # <<>> /\ pc # "lookups") =>
        /\ Len(Gets) = Cardinality(FetchedIds)
        /\ {Gets[k].d : k \in DOMAIN Gets} = FetchedIds
        /\ \A p \in Positions("GET sbdb") : p < Len(log) /\ log[p + 1].e = "sleep"
        /\ RequestsInOrder

\* what holds of C10 in every run: the order of the requests at every moment, and one
\* request per designation in every run whose lookup loop ended
C10_HoldsWhenLoopEnds ==
    /\ RequestsInOrder
    /\ Enriched => /\ Len(Gets) = Cardinality(FetchedIds)
                   /\ \A p \in Positions("GET sbdb") : log[p + 1].e = "sleep"

----------------------------------------------------------------------------
(* Claims about the String Normalizer (under SpecClean). *)

Chars(s) == {s[k] : k \in DOMAIN s}

\* the trimmed string starts with "(" and ends with ")"
Wrapped(s) == Len(s) >= 2 /\ s[1] = "(" /\ s[Len(s)] = ")"

----------------------------------------------------------------------------
(* Claims about the MOID Extractor (under SpecExtract). *)

\* The fallback chain as the specification words it: the first value found.
FirstFound(a, b) == IF a # JNull THEN a ELSE b

RECURSIVE ChainListCandidate(_)
ChainListCandidate(its) ==
    IF its = <<>> THEN JNull
    ELSE IF Head(its).t = "dict" /\ Lower(Strip(Head(its).name)) \in MoidNames
         THEN FirstFound(Head(its).value, Head(its).val)
         ELSE ChainListCandidate(Tail(its))

ChainCandidate(o) ==
    LET elems == o.elements
        found == IF elems.t = "dict"
                 THEN FirstFound(elems.moid, FirstFound(elems.earth, elems.moid_au))
                 ELSE IF elems.t = "list" THEN ChainListCandidate(elems.items)
                 ELSE JNull
    IN  FirstFound(found, o.moid)

\* a numeric candidate is that number; a string is its float parse, else its first
\* numeric substring; anything else is absent
ChainValue(c) ==
    CASE c.k = "num" -> Some(c.v)
      [] c.k = "str" ->
            IF ParseFloat(c.s).ok THEN Some(ParseFloat(c.s).v)
            ELSE IF SearchNumber(c.s) = <<>> THEN NaN
            ELSE Some(ParseFloat(SearchNumber(c.s)[1]).v)
      [] OTHER -> NaN

\* C6: for every orbit record the extractor never raises and returns what the ordered
\* fallback chain returns (absent for a record that is not a mapping).
C6_FollowsChainNeverRaises ==
    xres # <<>> =>
        /\ ~xres[1].raise
        /\ IF orbit.t # "dict" THEN xres[1].v = NaN
           ELSE ChainCandidate(orbit).k # "bigint" =>
                    xres[1].v = ChainValue(ChainCandidate(orbit))

\* the two halves of C6, apart
C6_NeverRaises == xres # <<>> => ~xres[1].raise

C6_FollowsChain ==
    (xres # <<>> /\ ~xres[1].raise /\ orbit.t = "dict" /\ ChainCandidate(orbit).k # "bigint")
        => xres[1].v = ChainValue(ChainCandidate(orbit))

\* where the chain never meets a falsy value or an oversized integer, the code follows it
FalsyOrBig(x) == x.k = "bigint" \/ (x # JNull /\ ~Truthy(x))

C6_FollowsChainOnTruthy ==
    (/\ xres # <<>>
     /\ orbit.t = "dict"
     /\ ~FalsyOrBig(orbit.moid)
     /\ ~FalsyOrBig(orbit.elements.moid)
     /\ ~FalsyOrBig(orbit.elements.earth)
     /\ ~FalsyOrBig(orbit.elements.moid_au)
     /\ \A k \in DOMAIN orbit.elements.items :
            ~FalsyOrBig(orbit.elements.items[k].value) /\ ~FalsyOrBig(orbit.elements.items[k].val))
        => xres[1] = Ret(ChainValue(ChainCandidate(orbit)))

====
